---------------------------- MODULE Spec2Model ----------------------------
(***************************************************************************)
(* Rate-limit decision core of limit-your-api: the five algorithms of the  *)
(* in-process MemoryBackend and of the RedisBackend (Lua scripts run       *)
(* atomically by the store), driven by callers that read the wall clock    *)
(* and then enter the backend.                                             *)
(*                                                                         *)
(* Numbers.  Time is in integer milliseconds.  The float64 state of the    *)
(* bucket algorithms is kept exactly, in thousandths of a token: with an   *)
(* integer rate per second, (elapsedMs / 1000) * rate tokens is            *)
(* elapsedMs * rate thousandths.  The weighted count of the sliding        *)
(* counter is kept exactly in units of 1 / windowMs.  Floating-point       *)
(* rounding error is outside the model.                                    *)
(***************************************************************************)
EXTENDS Integers, Sequences, FiniteSets, TLC

VARIABLES
    clock,      \* wall clock in ms: what time.Now().UnixMilli() returns
    backend,    \* "memory" | "redis": the Backend the server was started with;
                \* "both": one server of each kind, given the same requests
    load,       \* what the clients of this run ask for: algorithm, parameter sets
    mem,        \* MemoryBackend: the five maps
    mu,         \* MemoryBackend.mu: the caller holding it, or NoCaller
    store,      \* the Redis keyspace: store key -> [type, val, persist, exp]
    pc,         \* per caller: "off" | "idle" | "ready" (clock read) | "locked"
    now,        \* per caller: the nowMs it read
    snap,       \* per caller: the maps as loaded after taking the mutex
    last,       \* the most recent decision: request, server time, Result
    lastRemote, \* runs with both backends: the remote Result for `last`
    hist,       \* history: observed nowMs -> cost admitted, calls denied
    order,      \* history: largest nowMs applied, and whether every decision
                \* so far was applied in non-decreasing order of nowMs
    http,       \* Handler.Check: the request being served and what was written
    shadow      \* reference keyspaces a run of the remote backend is compared to

vars == <<clock, backend, load, mem, mu, store, pc, now, snap, last, lastRemote,
          hist, order, http, shadow>>

-----------------------------------------------------------------------------
(* Bounds and program constants *)

\* Number of clock instants after 0 that a run can observe.
MaxTicks == 2

\* Remote fixed-window counters grow on every call; calls stop at this count.
MaxCount == 3

\* Milliseconds per second: the 1000 of every rate conversion.
MsPerSec == 1000

\* Grace added to every TTL by the remote backend.
TtlGraceMs == 1000

\* Thousandths of a token per token (the fixed-point scale of the model).
Milli == MsPerSec

Instants == {500 * i : i \in 0..MaxTicks}

\* A coarser grid, reaching two windows past the first.
FarInstants == {1000 * i : i \in 0..MaxTicks}

\* The instants of the sliding-log scenario of the spec, and the window edge.
LogScenarioInstants == {0, 400, 800, 900, 1000, 1050}

Callers == {"c1", "c2"}
Keys == {"k"}
Algorithms == {"token_bucket", "leaky_bucket", "fixed_window",
               "sliding_window_log", "sliding_window_counter"}
BucketAlgorithms == {"token_bucket", "leaky_bucket"}
Backends == {"memory", "redis"}
NoCaller == "none"

\* Inputs of a decision: a (capacity or limit), b (rate per second or windowMs).
Capacities == {1, 2}
Rates == {1}
Limits == {1, 2}
Windows == {1000}
Costs == {-1, 1, 2}

-----------------------------------------------------------------------------
(* Arithmetic helpers *)

Min(a, b) == IF a <= b THEN a ELSE b
Max(a, b) == IF a >= b THEN a ELSE b

\* math.Ceil(a / b) and math.Floor(a / b) for b > 0.
CeilDiv(a, b) == -((-a) \div b)
FloorDivUp(a, b) == -((-a) \div b)
FloorDiv(a, b) == a \div b

\* int64(x) of a float64 a / b, b > 0: truncation toward zero.
TruncDiv(a, b) == IF a >= 0 THEN a \div b ELSE -((-a) \div b)

RECURSIVE SumOver(_, _)
SumOver(f, S) ==
    IF S = {} THEN 0
    ELSE LET x == CHOOSE y \in S : TRUE IN f[x] + SumOver(f, S \ {x})

RECURSIVE Repeat(_, _)
Repeat(x, n) == IF n <= 0 THEN <<>> ELSE <<x>> \o Repeat(x, n - 1)

RECURSIVE FilterKeepEqual(_, _)
FilterKeepEqual(s, cutoff) ==
    IF s = <<>> THEN <<>>
    ELSE (IF Head(s) >= cutoff THEN <<Head(s)>> ELSE <<>>)
         \o FilterKeepEqual(Tail(s), cutoff)

RECURSIVE Filter(_, _)
\* The in-place filter of SlidingWindowLogAllow: keep ts > cutoff, in order.
Filter(s, cutoff) ==
    IF s = <<>> THEN <<>>
    ELSE (IF Head(s) > cutoff THEN <<Head(s)>> ELSE <<>>) \o Filter(Tail(s), cutoff)

-----------------------------------------------------------------------------
(* Result record *)

Result(allowed, remaining, resetAtMs, retryAfterMs, currentCount, computedCount) ==
    [allowed |-> allowed, remaining |-> remaining, resetAtMs |-> resetAtMs,
     retryAfterMs |-> retryAfterMs, currentCount |-> currentCount,
     computedCount |-> computedCount]

\* Result{}: the zero value.
ZeroResult == Result(FALSE, 0, 0, 0, 0, 0)

\* NewMemoryBackend: five empty maps.
NewMemoryBackend ==
    [tokenBuckets |-> <<>>, leakyBuckets |-> <<>>, fixedWindows |-> <<>>,
     slidingLogs |-> <<>>, slidingCounters |-> <<>>]

\* m[key] = v on a Go map.
Put(m, key, v) == (key :> v) @@ m


-----------------------------------------------------------------------------
(* MemoryBackend.  Each operator is the body of one method from the point   *)
(* where nowMs has been read: the guard, then the critical section under    *)
(* m.mu.  It returns the maps after the call and the Result.                *)

\* TokenBucketAllow with retryAfterMs rounded down.
MemTokenBucketAllowNoCeil(m, key, capacity, refillPerSec, cost, nowMs) ==
    IF capacity <= 0 \/ refillPerSec <= 0 \/ cost <= 0
    THEN [mem |-> m, res |-> ZeroResult]
    ELSE
    LET state == IF key \in DOMAIN m.tokenBuckets
                 THEN m.tokenBuckets[key]
                 ELSE [tokens |-> capacity * Milli, lastMs |-> nowMs]
        elapsedMs == nowMs - state.lastMs
        refill == (elapsedMs * refillPerSec * Milli) \div MsPerSec
        tokens1 == Min(capacity * Milli, state.tokens + refill)
        allowed == tokens1 >= cost * Milli
        tokens == IF allowed THEN tokens1 - cost * Milli ELSE tokens1
        remaining == FloorDiv(tokens, Milli)
        resetAtMs == nowMs + CeilDiv((capacity * Milli - tokens) * MsPerSec,
                                     refillPerSec * Milli)
        retryAfterMs == IF ~allowed
                        THEN ((cost * Milli - tokens) * MsPerSec)
                             \div (refillPerSec * Milli)
                        ELSE 0
    IN [mem |-> [m EXCEPT !.tokenBuckets =
                    Put(@, key, [tokens |-> tokens, lastMs |-> nowMs])],
        res |-> Result(allowed, remaining, resetAtMs, retryAfterMs, 0, 0)]

MemTokenBucketAllow(m, key, capacity, refillPerSec, cost, nowMs) ==
    IF capacity <= 0 \/ refillPerSec <= 0 \/ cost <= 0
    THEN [mem |-> m, res |-> ZeroResult]
    ELSE
    LET state == IF key \in DOMAIN m.tokenBuckets
                 THEN m.tokenBuckets[key]
                 ELSE [tokens |-> capacity * Milli, lastMs |-> nowMs]
        elapsedMs == nowMs - state.lastMs
        refill == (elapsedMs * refillPerSec * Milli) \div MsPerSec
        tokens1 == Min(capacity * Milli, state.tokens + refill)
        allowed == tokens1 >= cost * Milli
        tokens == IF allowed THEN tokens1 - cost * Milli ELSE tokens1
        remaining == FloorDiv(tokens, Milli)
        resetAtMs == nowMs + CeilDiv((capacity * Milli - tokens) * MsPerSec,
                                     refillPerSec * Milli)
        retryAfterMs == IF ~allowed
                        THEN CeilDiv((cost * Milli - tokens) * MsPerSec,
                                     refillPerSec * Milli)
                        ELSE 0
    IN [mem |-> [m EXCEPT !.tokenBuckets =
                    Put(@, key, [tokens |-> tokens, lastMs |-> nowMs])],
        res |-> Result(allowed, remaining, resetAtMs, retryAfterMs, 0, 0)]

MemLeakyBucketAllow(m, key, capacity, leakPerSec, cost, nowMs) ==
    IF capacity <= 0 \/ leakPerSec <= 0 \/ cost <= 0
    THEN [mem |-> m, res |-> ZeroResult]
    ELSE
    LET state == IF key \in DOMAIN m.leakyBuckets
                 THEN m.leakyBuckets[key]
                 ELSE [water |-> 0, lastMs |-> nowMs]
        elapsedMs == nowMs - state.lastMs
        leak == (elapsedMs * leakPerSec * Milli) \div MsPerSec
        water1 == Max(0, state.water - leak)
        allowed == water1 + cost * Milli <= capacity * Milli
        water == IF allowed THEN water1 + cost * Milli ELSE water1
        remaining == FloorDiv(capacity * Milli - water, Milli)
        resetAtMs == nowMs + CeilDiv(water * MsPerSec, leakPerSec * Milli)
        retryAfterMs == IF ~allowed
                        THEN CeilDiv((water + cost * Milli - capacity * Milli) * MsPerSec,
                                     leakPerSec * Milli)
                        ELSE 0
    IN [mem |-> [m EXCEPT !.leakyBuckets =
                    Put(@, key, [water |-> water, lastMs |-> nowMs])],
        res |-> Result(allowed, remaining, resetAtMs, retryAfterMs, 0, 0)]

\* The window a fixed-window decision of the local backend counts in: the
\* stored one unless there is none or nowMs is windowMs or more past its start.
MemFixedWindowState(m, key, windowMs, nowMs) ==
    IF key \notin DOMAIN m.fixedWindows
       \/ nowMs - m.fixedWindows[key].windowStartMs >= windowMs
    THEN [count |-> 0, windowStartMs |-> nowMs - (nowMs % windowMs)]
    ELSE m.fixedWindows[key]

RetryAfterResetAlways(allowed, resetAtMs, nowMs) == resetAtMs - nowMs

\* retryAfterMs of the window algorithms: the time to resetAtMs when denied.
RetryAfterReset(allowed, resetAtMs, nowMs) ==
    IF ~allowed THEN resetAtMs - nowMs ELSE 0

\* FixedWindowAllow counting denied calls as the remote script does.
MemFixedWindowAllowCountAll(m, key, limit, windowMs, cost, nowMs) ==
    IF limit <= 0 \/ windowMs <= 0 \/ cost <= 0
    THEN [mem |-> m, res |-> ZeroResult]
    ELSE
    LET state == MemFixedWindowState(m, key, windowMs, nowMs)
        allowed == state.count + cost <= limit
        count == state.count + cost
        resetAtMs == state.windowStartMs + windowMs
        retryAfterMs == RetryAfterReset(allowed, resetAtMs, nowMs)
    IN [mem |-> [m EXCEPT !.fixedWindows =
                    Put(@, key, [count |-> count,
                                 windowStartMs |-> state.windowStartMs])],
        res |-> Result(allowed, limit - count, resetAtMs, retryAfterMs, count, 0)]

MemFixedWindowAllow(m, key, limit, windowMs, cost, nowMs) ==
    IF limit <= 0 \/ windowMs <= 0 \/ cost <= 0
    THEN [mem |-> m, res |-> ZeroResult]
    ELSE
    LET state == MemFixedWindowState(m, key, windowMs, nowMs)
        allowed == state.count + cost <= limit
        count == IF allowed THEN state.count + cost ELSE state.count
        resetAtMs == state.windowStartMs + windowMs
        retryAfterMs == RetryAfterReset(allowed, resetAtMs, nowMs)
    IN [mem |-> [m EXCEPT !.fixedWindows =
                    Put(@, key, [count |-> count,
                                 windowStartMs |-> state.windowStartMs])],
        res |-> Result(allowed, limit - count, resetAtMs, retryAfterMs, count, 0)]

MemSlidingWindowLogAllow(m, key, limit, windowMs, cost, nowMs) ==
    IF limit <= 0 \/ windowMs <= 0 \/ cost <= 0
    THEN [mem |-> m, res |-> ZeroResult]
    ELSE
    LET logs0 == IF key \in DOMAIN m.slidingLogs THEN m.slidingLogs[key] ELSE <<>>
        cutoff == nowMs - windowMs
        kept == Filter(logs0, cutoff)
        allowed == Len(kept) + cost <= limit
        logs == IF allowed THEN kept \o Repeat(nowMs, cost) ELSE kept
        resetAtMs == IF Len(logs) > 0 THEN logs[1] + windowMs ELSE nowMs + windowMs
        retryAfterMs == RetryAfterReset(allowed, resetAtMs, nowMs)
    IN [mem |-> [m EXCEPT !.slidingLogs = Put(@, key, logs)],
        res |-> Result(allowed, limit - Len(logs), resetAtMs, retryAfterMs,
                       Len(logs), 0)]

\* The counters a sliding-counter decision of the local backend starts from:
\* created on first use, rolled over when the stored window is not the current one.
MemSlidingCounterState(m, key, currentWindowStart) ==
    LET state == IF key \in DOMAIN m.slidingCounters
                 THEN m.slidingCounters[key]
                 ELSE [windowStartMs |-> currentWindowStart,
                       currentCount |-> 0, prevCount |-> 0]
    IN IF state.windowStartMs # currentWindowStart
       THEN [windowStartMs |-> currentWindowStart,
             currentCount |-> 0, prevCount |-> state.currentCount]
       ELSE state

MemSlidingWindowCounterAllow(m, key, limit, windowMs, cost, nowMs) ==
    IF limit <= 0 \/ windowMs <= 0 \/ cost <= 0
    THEN [mem |-> m, res |-> ZeroResult]
    ELSE
    LET currentWindowStart == nowMs - (nowMs % windowMs)
        state == MemSlidingCounterState(m, key, currentWindowStart)
        elapsed == nowMs - state.windowStartMs
        \* computed, in units of 1 / windowMs
        computed0 == state.prevCount * (windowMs - elapsed)
                     + state.currentCount * windowMs
        allowed == computed0 + cost * windowMs <= limit * windowMs
        currentCount == IF allowed THEN state.currentCount + cost
                        ELSE state.currentCount
        computed == IF allowed THEN computed0 + cost * windowMs ELSE computed0
        resetAtMs == state.windowStartMs + windowMs
        retryAfterMs == RetryAfterReset(allowed, resetAtMs, nowMs)
    IN [mem |-> [m EXCEPT !.slidingCounters =
                    Put(@, key, [state EXCEPT !.currentCount = currentCount])],
        res |-> Result(allowed,
                       TruncDiv(Max(0, limit * windowMs - computed), windowMs),
                       resetAtMs, retryAfterMs, currentCount,
                       CeilDiv(computed, windowMs))]

-----------------------------------------------------------------------------
(* The Redis keyspace.  An entry is [type, val, persist, exp]: val a hash   *)
(* (record), a string holding a counter (integer) or a sorted set (set of   *)
(* [score, member]); persist is TRUE while no TTL is set, and otherwise     *)
(* exp is the absolute server time in ms after which the key is gone.  The  *)
(* server's time is the wall clock at the moment the script runs.           *)

NewEntry(type, v) == [type |-> type, val |-> v, persist |-> TRUE, exp |-> 0]

Live(s, k, t) == k \in DOMAIN s /\ (s[k].persist \/ t <= s[k].exp)

\* The keyspace as a script running at server time t sees it.
Purge(s, t) == [k \in {x \in DOMAIN s : Live(s, x, t)} |-> s[k]]

\* PEXPIRE key ttl: no effect on a key that does not exist.
PExpire(s, k, t, ttlMs) ==
    IF k \in DOMAIN s
    THEN [s EXCEPT ![k].persist = FALSE, ![k].exp = t + ttlMs]
    ELSE s

\* HSET key f1 v1 f2 v2 with all the fields of the hash: the TTL is kept.
HSet(s, k, h) ==
    IF k \in DOMAIN s THEN [s EXCEPT ![k].val = h] ELSE Put(s, k, NewEntry("hash", h))

\* INCRBY key n (INCR is INCRBY 1): a missing key counts from 0, without TTL.
IncrBy(s, k, n) ==
    IF k \in DOMAIN s THEN [s EXCEPT ![k].val = @ + n]
    ELSE Put(s, k, NewEntry("string", n))

\* GET key or "0", as a number.
GetCount(s, k) == IF k \in DOMAIN s THEN s[k].val ELSE 0

\* ZREMRANGEBYSCORE key 0 max: a sorted set left empty is deleted.
ZRemRangeByScore(s, k, max) ==
    IF k \notin DOMAIN s THEN s
    ELSE LET kept == {e \in s[k].val : ~(0 <= e.score /\ e.score <= max)}
         IN IF kept = {} THEN [x \in DOMAIN s \ {k} |-> s[x]]
            ELSE [s EXCEPT ![k].val = kept]

ZCard(s, k) == IF k \in DOMAIN s THEN Cardinality(s[k].val) ELSE 0

ZAdd(s, k, score, member) ==
    IF k \in DOMAIN s
    THEN [s EXCEPT ![k].val =
            {e \in @ : e.member # member} \cup {[score |-> score, member |-> member]}]
    ELSE Put(s, k, NewEntry("zset", {[score |-> score, member |-> member]}))

\* The score ZRANGE key 0 0 WITHSCORES returns; only asked of a non-empty set.
ZMinScore(s, k) ==
    CHOOSE x \in {e.score : e \in s[k].val} :
        \A y \in {e.score : e \in s[k].val} : x <= y

-----------------------------------------------------------------------------
(* The Lua scripts.  Each returns the keyspace after the script and the     *)
(* reply table; s is the keyspace at server time t, already purged.         *)

tokenBucketScript(s, t, key, capacity, refill, cost, now_ms, ttl_ms) ==
    LET have == key \in DOMAIN s
        tokens0 == IF have THEN s[key].val.tokens ELSE capacity * Milli
        last0 == IF have THEN s[key].val.last_ms ELSE now_ms
        last_ms == IF now_ms < last0 THEN now_ms ELSE last0
        refill_tokens == ((now_ms - last_ms) * refill * Milli) \div MsPerSec
        tokens1 == Min(capacity * Milli, tokens0 + refill_tokens)
        allowed == IF tokens1 >= cost * Milli THEN 1 ELSE 0
        tokens == IF allowed = 1 THEN tokens1 - cost * Milli ELSE tokens1
        s1 == HSet(s, key, [tokens |-> tokens, last_ms |-> now_ms])
        s2 == PExpire(s1, key, t, ttl_ms)
        remaining == FloorDiv(tokens, Milli)
        reset_at == now_ms + CeilDiv((capacity * Milli - tokens) * MsPerSec,
                                     refill * Milli)
        retry_after == IF allowed = 0
                       THEN CeilDiv((cost * Milli - tokens) * MsPerSec, refill * Milli)
                       ELSE 0
    IN [store |-> s2, reply |-> <<allowed, remaining, reset_at, retry_after>>]

leakyBucketScript(s, t, key, capacity, leak, cost, now_ms, ttl_ms) ==
    LET have == key \in DOMAIN s
        water0 == IF have THEN s[key].val.water ELSE 0
        last0 == IF have THEN s[key].val.last_ms ELSE now_ms
        last_ms == IF now_ms < last0 THEN now_ms ELSE last0
        leaked == ((now_ms - last_ms) * leak * Milli) \div MsPerSec
        water1 == Max(0, water0 - leaked)
        allowed == IF water1 + cost * Milli <= capacity * Milli THEN 1 ELSE 0
        water == IF allowed = 1 THEN water1 + cost * Milli ELSE water1
        s1 == HSet(s, key, [water |-> water, last_ms |-> now_ms])
        s2 == PExpire(s1, key, t, ttl_ms)
        remaining == FloorDiv(capacity * Milli - water, Milli)
        reset_at == now_ms + CeilDiv(water * MsPerSec, leak * Milli)
        retry_after == IF allowed = 0
                       THEN CeilDiv((water + cost * Milli - capacity * Milli) * MsPerSec,
                                    leak * Milli)
                       ELSE 0
    IN [store |-> s2, reply |-> <<allowed, remaining, reset_at, retry_after>>]

fixedWindowScript(s, t, base_key, limit, window_ms, cost, now_ms) ==
    LET window_start == now_ms - (now_ms % window_ms)
        key == base_key \o ":" \o ToString(window_start)
        s1 == IncrBy(s, key, cost)
        count == s1[key].val
        s2 == PExpire(s1, key, t, window_ms + TtlGraceMs)
        allowed == IF count > limit THEN 0 ELSE 1
        reset_at == window_start + window_ms
        retry_after == IF allowed = 0 THEN reset_at - now_ms ELSE 0
    IN [store |-> s2,
        reply |-> <<allowed, limit - count, reset_at, retry_after, count>>]

RECURSIVE ZAddCopies(_, _, _, _, _)
\* for i = 1, cost do INCR seq_key; ZADD key now_ms now_ms:seq end
ZAddCopies(s, key, seq_key, now_ms, n) ==
    IF n <= 0 THEN s
    ELSE LET s1 == IncrBy(s, seq_key, 1)
             seq == s1[seq_key].val
             s2 == ZAdd(s1, key, now_ms, ToString(now_ms) \o ":" \o ToString(seq))
         IN ZAddCopies(s2, key, seq_key, now_ms, n - 1)

slidingLogScript(s, t, key, seq_key, limit, window_ms, cost, now_ms) ==
    LET cutoff == now_ms - window_ms
        s1 == ZRemRangeByScore(s, key, cutoff)
        count0 == ZCard(s1, key)
        allowed == IF count0 + cost <= limit THEN 1 ELSE 0
        s2 == IF allowed = 1 THEN ZAddCopies(s1, key, seq_key, now_ms, cost) ELSE s1
        count == IF allowed = 1 THEN count0 + cost ELSE count0
        s3 == PExpire(s2, key, t, window_ms + TtlGraceMs)
        s4 == PExpire(s3, seq_key, t, window_ms + TtlGraceMs)
        reset_at == IF count > 0 /\ key \in DOMAIN s4
                    THEN ZMinScore(s4, key) + window_ms
                    ELSE now_ms + window_ms
        retry_after == IF allowed = 0 THEN reset_at - now_ms ELSE 0
    IN [store |-> s4,
        reply |-> <<allowed, limit - count, reset_at, retry_after, count>>]

slidingCounterScript(s, t, base_key, limit, window_ms, cost, now_ms) ==
    LET current_start == now_ms - (now_ms % window_ms)
        prev_start == current_start - window_ms
        current_key == base_key \o ":" \o ToString(current_start)
        prev_key == base_key \o ":" \o ToString(prev_start)
        current0 == GetCount(s, current_key)
        prev_count == GetCount(s, prev_key)
        elapsed == now_ms - current_start
        \* computed, in units of 1 / window_ms
        computed0 == prev_count * (window_ms - elapsed) + current0 * window_ms
        allowed == IF computed0 + cost * window_ms <= limit * window_ms THEN 1 ELSE 0
        s1 == IF allowed = 1 THEN IncrBy(s, current_key, cost) ELSE s
        current_count == IF allowed = 1 THEN s1[current_key].val ELSE current0
        computed == IF allowed = 1 THEN computed0 + cost * window_ms ELSE computed0
        s2 == PExpire(s1, current_key, t, window_ms + TtlGraceMs)
        s3 == PExpire(s2, prev_key, t, window_ms + TtlGraceMs)
        reset_at == current_start + window_ms
        retry_after == IF allowed = 0 THEN reset_at - now_ms ELSE 0
    IN [store |-> s3,
        reply |-> <<allowed, FloorDiv(limit * window_ms - computed, window_ms),
                    reset_at, retry_after, current_count,
                    CeilDiv(computed, window_ms)>>]

-----------------------------------------------------------------------------
(* RedisBackend: guard, TTL, one script run, parseResult.                   *)

\* A reply as the client library hands it over (interface{}): an int64
\* [kind "int", val], a string [kind "str", text], a float64 [kind "float",
\* milli: its value in thousandths], nil [kind "nil"], or a list [kind
\* "list", items].
IntValue(n) == [kind |-> "int", val |-> n]

\* The reply of a script that returns a table of whole numbers: an array of
\* integer replies, each an int64.
LuaReply(reply) ==
    [kind |-> "list", items |-> [i \in DOMAIN reply |-> IntValue(reply[i])]]

\* strconv.ParseInt(v, 10, 64) on the strings of the model.
Numerals == ("0" :> 0) @@ ("1" :> 1) @@ ("7" :> 7) @@ ("-1" :> -1)

toInt64(value) ==
    CASE value.kind = "int" -> value.val
      [] value.kind = "float" -> TruncDiv(value.milli, Milli)
      [] value.kind = "str" ->
            IF value.text \in DOMAIN Numerals THEN Numerals[value.text] ELSE 0
      [] OTHER -> 0

\* getOptionalInt(items, idx), idx counted from 0 as in the source.
getOptionalInt(items, idx) ==
    IF idx >= Len(items) THEN 0 ELSE toInt64(items[idx + 1])

parseResult(value) ==
    IF value.kind # "list" THEN ZeroResult
    ELSE LET items == value.items
         IN IF Len(items) < 4 THEN ZeroResult
            ELSE Result(toInt64(items[1]) = 1, toInt64(items[2]), toInt64(items[3]),
                        toInt64(items[4]), getOptionalInt(items, 4),
                        getOptionalInt(items, 5))

\* ttlMs of the bucket algorithms: ceil(capacity / rate * 1000) + 1000.
BucketTtlMs(capacity, ratePerSec) ==
    CeilDiv(capacity * MsPerSec, ratePerSec) + TtlGraceMs

RedisTokenBucketAllow(s, t, key, capacity, refillPerSec, cost, nowMs) ==
    IF capacity <= 0 \/ refillPerSec <= 0 \/ cost <= 0
    THEN [store |-> s, res |-> ZeroResult, sent |-> FALSE]
    ELSE LET r == tokenBucketScript(Purge(s, t), t, "tb:" \o key, capacity,
                                    refillPerSec, cost, nowMs,
                                    BucketTtlMs(capacity, refillPerSec))
         IN [store |-> r.store, res |-> parseResult(LuaReply(r.reply)), sent |-> TRUE]

RedisLeakyBucketAllow(s, t, key, capacity, leakPerSec, cost, nowMs) ==
    IF capacity <= 0 \/ leakPerSec <= 0 \/ cost <= 0
    THEN [store |-> s, res |-> ZeroResult, sent |-> FALSE]
    ELSE LET r == leakyBucketScript(Purge(s, t), t, "lb:" \o key, capacity,
                                    leakPerSec, cost, nowMs,
                                    BucketTtlMs(capacity, leakPerSec))
         IN [store |-> r.store, res |-> parseResult(LuaReply(r.reply)), sent |-> TRUE]

RedisFixedWindowAllowAnyCost(s, t, key, limit, windowMs, cost, nowMs) ==
    IF limit <= 0 \/ windowMs <= 0
    THEN [store |-> s, res |-> ZeroResult, sent |-> FALSE]
    ELSE LET r == fixedWindowScript(Purge(s, t), t, key, limit, windowMs, cost, nowMs)
         IN [store |-> r.store, res |-> parseResult(LuaReply(r.reply)), sent |-> TRUE]

RedisFixedWindowAllow(s, t, key, limit, windowMs, cost, nowMs) ==
    IF limit <= 0 \/ windowMs <= 0 \/ cost <= 0
    THEN [store |-> s, res |-> ZeroResult, sent |-> FALSE]
    ELSE LET r == fixedWindowScript(Purge(s, t), t, key, limit, windowMs, cost, nowMs)
         IN [store |-> r.store, res |-> parseResult(LuaReply(r.reply)), sent |-> TRUE]

RedisSlidingWindowLogAllow(s, t, key, limit, windowMs, cost, nowMs) ==
    IF limit <= 0 \/ windowMs <= 0 \/ cost <= 0
    THEN [store |-> s, res |-> ZeroResult, sent |-> FALSE]
    ELSE LET r == slidingLogScript(Purge(s, t), t, "swl:" \o key,
                                   "swl:" \o key \o ":seq", limit, windowMs,
                                   cost, nowMs)
         IN [store |-> r.store, res |-> parseResult(LuaReply(r.reply)), sent |-> TRUE]

\* SlidingWindowCounterAllow handing the script the key without a prefix.
RedisSlidingWindowCounterAllowNoPrefix(s, t, key, limit, windowMs, cost, nowMs) ==
    IF limit <= 0 \/ windowMs <= 0 \/ cost <= 0
    THEN [store |-> s, res |-> ZeroResult, sent |-> FALSE]
    ELSE LET r == slidingCounterScript(Purge(s, t), t, key, limit,
                                       windowMs, cost, nowMs)
         IN [store |-> r.store, res |-> parseResult(LuaReply(r.reply)), sent |-> TRUE]

RedisSlidingWindowCounterAllow(s, t, key, limit, windowMs, cost, nowMs) ==
    IF limit <= 0 \/ windowMs <= 0 \/ cost <= 0
    THEN [store |-> s, res |-> ZeroResult, sent |-> FALSE]
    ELSE LET r == slidingCounterScript(Purge(s, t), t, "swc:" \o key, limit,
                                       windowMs, cost, nowMs)
         IN [store |-> r.store, res |-> parseResult(LuaReply(r.reply)), sent |-> TRUE]

-----------------------------------------------------------------------------
(* The callers.  A request is dispatched on its algorithm as Handler.Check  *)
(* does; a is the capacity or the limit, b the rate per second or windowMs. *)

MemAllow(algorithm, m, key, a, b, cost, nowMs) ==
    CASE algorithm = "token_bucket" -> MemTokenBucketAllow(m, key, a, b, cost, nowMs)
      [] algorithm = "leaky_bucket" -> MemLeakyBucketAllow(m, key, a, b, cost, nowMs)
      [] algorithm = "fixed_window" -> MemFixedWindowAllow(m, key, a, b, cost, nowMs)
      [] algorithm = "sliding_window_log" ->
            MemSlidingWindowLogAllow(m, key, a, b, cost, nowMs)
      [] algorithm = "sliding_window_counter" ->
            MemSlidingWindowCounterAllow(m, key, a, b, cost, nowMs)

RedisAllow(algorithm, s, t, key, a, b, cost, nowMs) ==
    CASE algorithm = "token_bucket" -> RedisTokenBucketAllow(s, t, key, a, b, cost, nowMs)
      [] algorithm = "leaky_bucket" -> RedisLeakyBucketAllow(s, t, key, a, b, cost, nowMs)
      [] algorithm = "fixed_window" -> RedisFixedWindowAllow(s, t, key, a, b, cost, nowMs)
      [] algorithm = "sliding_window_log" ->
            RedisSlidingWindowLogAllow(s, t, key, a, b, cost, nowMs)
      [] algorithm = "sliding_window_counter" ->
            RedisSlidingWindowCounterAllow(s, t, key, a, b, cost, nowMs)

\* What becomes of script.Run(ctx, r.client, ...).Result(): "ok", the script
\* runs and its reply arrives; "refused", the call fails before the store
\* runs the script (no connection, ctx already done); "lost", the store runs
\* the script and the call fails while waiting for the reply (connection
\* lost, ctx done in the meantime).
NetOutcomes == {"ok", "refused", "lost"}

\* A method of RedisBackend with the outcome net of its script run on the
\* keyspace s, r being the run of the script (a call the guard returns from
\* is not sent): if err != nil { return Result{}, err };
\* return parseResult(res), nil.
ScriptRun(net, r, s) ==
    IF ~r.sent \/ net = "ok"
    THEN [store |-> r.store, res |-> r.res, sent |-> r.sent, err |-> FALSE]
    ELSE [store |-> IF net = "lost" THEN r.store ELSE s,
          res |-> ZeroResult, sent |-> TRUE, err |-> TRUE]

RedisCall(net, algorithm, s, t, key, a, b, cost, nowMs) ==
    ScriptRun(net, RedisAllow(algorithm, s, t, key, a, b, cost, nowMs), s)

ParamsA(algorithm) == IF algorithm \in BucketAlgorithms THEN Capacities ELSE Limits
ParamsB(algorithm) == IF algorithm \in BucketAlgorithms THEN Rates ELSE Windows

\* A workload: the algorithm, the values its requests take for a (capacity or
\* limit), b (rate or windowMs) and cost, the instants at which the clock is
\* observed, the callers, and what the history records ("none", "admits":
\* admitted cost, "calls": denied calls as well, counted 0, 1, many).
Load(algorithm, as, bs, costs, instants, callers, record) ==
    [alg |-> algorithm, as |-> as, bs |-> bs, costs |-> costs,
     instants |-> instants, callers |-> callers, record |-> record]

NoReq == [key |-> "", a |-> 0, b |-> 0, cost |-> 0, nowMs |-> 0]
NoLast == [valid |-> FALSE, req |-> NoReq, srv |-> 0, res |-> ZeroResult]

\* No request served yet.
NoHttp == [phase |-> "none"]

\* The fixed-window counters, which every call increments, are within the
\* bound of the model.
WithinBounds(s) ==
    load.alg = "fixed_window"
    => \A k \in DOMAIN s : s[k].type = "string" => s[k].val <= MaxCount

InitCore(backends, loads) ==
    /\ clock = 0
    /\ backend \in backends
    /\ load \in loads
    /\ mem = NewMemoryBackend
    /\ mu = NoCaller
    /\ store = <<>>
    /\ pc = [p \in Callers |-> IF p \in load.callers THEN "idle" ELSE "off"]
    /\ now = [p \in Callers |-> 0]
    /\ snap = [p \in Callers |-> NewMemoryBackend]
    /\ last = NoLast
    /\ lastRemote = ZeroResult
    /\ hist = [t \in load.instants |-> [adm |-> 0, den |-> 0]]
    /\ order = [max |-> 0, ok |-> TRUE]

InitWith(backends, loads) ==
    /\ InitCore(backends, loads)
    /\ http = NoHttp
    /\ shadow = <<>>

\* A method is entered and reads nowMs := time.Now().UnixMilli().
ReadClock(p) ==
    /\ pc[p] = "idle"
    /\ now' = [now EXCEPT ![p] = clock]
    /\ pc' = [pc EXCEPT ![p] = "ready"]
    /\ UNCHANGED <<clock, backend, load, mem, mu, store, snap, last, lastRemote,
                   hist, order, http, shadow>>

CanLockAlways(p) == TRUE

\* m.mu.Lock() returns only while no other caller holds the mutex.
CanLock(p) == mu = NoCaller

\* Local backend: the caller takes the mutex and loads the state.
Lock(p) ==
    /\ backend \in {"memory", "both"}
    /\ pc[p] = "ready"
    /\ CanLock(p)
    /\ mu' = p
    /\ snap' = [snap EXCEPT ![p] = mem]
    /\ pc' = [pc EXCEPT ![p] = "locked"]
    /\ UNCHANGED <<clock, backend, load, mem, store, now, last, lastRemote,
                   hist, order, http, shadow>>

\* The decision on request q: the rest of the critical section of the local
\* backend on the maps m it loaded, the script run by the store at server time
\* t, or both.
Outcome(b, m, s, t, algorithm, q) ==
    LET l == IF b = "redis" THEN [mem |-> m, res |-> ZeroResult]
             ELSE MemAllow(algorithm, m, q.key, q.a, q.b, q.cost, q.nowMs)
        r == IF b = "memory" THEN [store |-> s, res |-> ZeroResult, sent |-> FALSE]
             ELSE RedisAllow(algorithm, s, t, q.key, q.a, q.b, q.cost, q.nowMs)
    IN [mem |-> l.mem, store |-> r.store,
        res |-> IF b = "redis" THEN r.res ELSE l.res,
        remote |-> r.res, sent |-> r.sent]

\* The history after the decision on q with Result res.
Recorded(q, res) ==
    IF load.record = "none" THEN hist
    ELSE IF res.allowed THEN [hist EXCEPT ![q.nowMs].adm = @ + q.cost]
    ELSE IF load.record = "calls"
         THEN [hist EXCEPT ![q.nowMs].den = Min(@ + 1, 2)]
         ELSE hist

Ordered(q) ==
    IF load.record = "none" THEN order
    ELSE [max |-> Max(order.max, q.nowMs), ok |-> order.ok /\ q.nowMs >= order.max]

\* The caller gets the decision for its request: the local backend finishes
\* the critical section and releases the mutex (the deferred Unlock); the
\* remote backend has its script run by the store.
Decide(p) ==
    /\ pc[p] = IF backend = "redis" THEN "ready" ELSE "locked"
    /\ \E key \in Keys, a \in load.as, b \in load.bs, cost \in load.costs :
          LET q == [key |-> key, a |-> a, b |-> b, cost |-> cost, nowMs |-> now[p]]
              o == Outcome(backend, snap[p], store, clock, load.alg, q)
          IN /\ WithinBounds(o.store)
             /\ mem' = IF backend = "redis" THEN mem ELSE o.mem
             /\ store' = o.store
             /\ last' = [valid |-> TRUE, req |-> q, srv |-> clock, res |-> o.res]
             /\ lastRemote' = IF backend = "both" THEN o.remote ELSE lastRemote
             /\ hist' = Recorded(q, o.res)
             /\ order' = Ordered(q)
    /\ mu' = IF backend = "redis" THEN mu ELSE NoCaller
    /\ snap' = [snap EXCEPT ![p] = NewMemoryBackend]
    /\ pc' = [pc EXCEPT ![p] = "idle"]
    /\ now' = [now EXCEPT ![p] = 0]
    /\ UNCHANGED <<clock, backend, load, http, shadow>>

\* Time passes; the store drops the keys whose TTL has run out.
Tick ==
    /\ \E t \in load.instants : t > clock /\ clock' = t
    /\ store' = Purge(store, clock')
    /\ UNCHANGED <<backend, load, mem, mu, pc, now, snap, last, lastRemote,
                   hist, order, http, shadow>>

Next ==
    \/ \E p \in Callers : ReadClock(p)
    \/ \E p \in Callers : Lock(p)
    \/ \E p \in Callers : Decide(p)
    \/ Tick

\* Any algorithm, parameters that change from call to call (a cost <= 0
\* among them), two callers.
Loads ==
    {Load(x, ParamsA(x), ParamsB(x), Costs, Instants, Callers, "none") :
        x \in Algorithms}

Init == InitWith(Backends, Loads)

Spec == Init /\ [][Next]_vars

\* One algorithm with one fixed pair of parameters per run, cost 1, two
\* callers; the admitted cost is recorded per observed nowMs.
FixedLoads ==
    UNION {{Load(x, {a}, {b}, {1}, Instants, Callers, "admits") :
                a \in ParamsA(x), b \in ParamsB(x)} : x \in Algorithms}

InitFixed == InitWith(Backends, FixedLoads)

SpecFixed == InitFixed /\ [][Next]_vars

-----------------------------------------------------------------------------
(* Handler.Check: what it writes for the outcome of the backend call.       *)

\* int64ToString: strconv.FormatInt(v, 10).
int64ToString(v) == ToString(v)

\* writeJSON(w, status, ErrorResponse{Error: code}).
ErrorResponse(status, code) ==
    [status |-> status, error |-> code,
     headers |-> [h \in {"Content-Type"} |-> "application/json"]]

\* The end of Check with the status taken from what remains.
RespondByRemaining(key, algorithm, res, err) ==
    IF err THEN <<ErrorResponse(500, "backend_error")>>
    ELSE <<[status |-> IF res.remaining <= 0 THEN 429 ELSE 200,
            error |-> "",
            headers |-> [h \in {"Content-Type", "X-RateLimit-Remaining",
                                "X-RateLimit-Reset-Ms",
                                "X-RateLimit-Retry-After-Ms"} |->
                CASE h = "Content-Type" -> "application/json"
                  [] h = "X-RateLimit-Remaining" -> int64ToString(res.remaining)
                  [] h = "X-RateLimit-Reset-Ms" -> int64ToString(res.resetAtMs)
                  [] h = "X-RateLimit-Retry-After-Ms" ->
                        int64ToString(res.retryAfterMs)],
            body |-> [key |-> key, algorithm |-> algorithm, result |-> res]]>>

\* The end of Check: 500 on err; else the three headers, 200 or 429 and the
\* CheckResponse.  The value is the list of responses written.
Respond(key, algorithm, res, err) ==
    IF err THEN <<ErrorResponse(500, "backend_error")>>
    ELSE <<[status |-> IF ~res.allowed THEN 429 ELSE 200,
            error |-> "",
            headers |-> [h \in {"Content-Type", "X-RateLimit-Remaining",
                                "X-RateLimit-Reset-Ms",
                                "X-RateLimit-Retry-After-Ms"} |->
                CASE h = "Content-Type" -> "application/json"
                  [] h = "X-RateLimit-Remaining" -> int64ToString(res.remaining)
                  [] h = "X-RateLimit-Reset-Ms" -> int64ToString(res.resetAtMs)
                  [] h = "X-RateLimit-Retry-After-Ms" ->
                        int64ToString(res.retryAfterMs)],
            body |-> [key |-> key, algorithm |-> algorithm, result |-> res]]>>

-----------------------------------------------------------------------------
(* Handler.Check: the request.  A string of a request is a sequence of      *)
(* pieces, each a blank " " or a word without blanks; Join gives the Go     *)
(* string.                                                                  *)

Space == " "

RECURSIVE Join(_)
Join(s) == IF s = <<>> THEN "" ELSE Head(s) \o Join(Tail(s))

RECURSIVE TrimLeft(_)
TrimLeft(s) == IF s # <<>> /\ Head(s) = Space THEN TrimLeft(Tail(s)) ELSE s

RECURSIVE TrimRight(_)
TrimRight(s) ==
    IF s # <<>> /\ s[Len(s)] = Space THEN TrimRight(SubSeq(s, 1, Len(s) - 1)) ELSE s

\* strings.TrimSpace
TrimSpace(s) == TrimRight(TrimLeft(s))

\* The spelling of an algorithm name with capitals.
Capitalized(algorithm) ==
    CASE algorithm = "token_bucket" -> "Token_Bucket"
      [] algorithm = "leaky_bucket" -> "LEAKY_BUCKET"
      [] algorithm = "fixed_window" -> "Fixed_Window"
      [] algorithm = "sliding_window_log" -> "SLIDING_WINDOW_LOG"
      [] algorithm = "sliding_window_counter" -> "Sliding_Window_Counter"

\* strings.ToLower on the words of the model.
ToLowerWord(w) ==
    IF \E x \in Algorithms : Capitalized(x) = w
    THEN CHOOSE x \in Algorithms : Capitalized(x) = w
    ELSE IF w \in {"Bearer", "BEARER"} THEN "bearer" ELSE w

ToLower(s) == [i \in DOMAIN s |-> ToLowerWord(s[i])]

\* strings.SplitN(s, " ", 2)
SplitN2(s) ==
    IF \A i \in DOMAIN s : s[i] # Space THEN <<s>>
    ELSE LET i == CHOOSE j \in DOMAIN s :
                     s[j] = Space /\ \A l \in 1..(j - 1) : s[l] # Space
         IN <<SubSeq(s, 1, i - 1), SubSeq(s, i + 1, Len(s))>>

bearerToken(header) ==
    LET value == TrimSpace(header)
        parts == SplitN2(value)
    IN IF value = <<>> THEN <<>>
       ELSE IF Len(parts) # 2 THEN <<>>
       ELSE IF Join(ToLower(parts[1])) # "bearer" THEN <<>>
       ELSE TrimSpace(parts[2])

\* hex.EncodeToString(sha256.Sum256([]byte(jwt))): a digest named after its
\* input, one per input.
Sha256Hex(jwt) == "sha256(" \o jwt \o ")"

\* buildKey with the device before the user.
buildKeyDeviceFirst(req) ==
    IF req.device_id # "" THEN "device:" \o req.device_id
    ELSE IF req.user_id # "" THEN "user:" \o req.user_id
    ELSE IF req.jwt # "" THEN "jwt:" \o Sha256Hex(req.jwt)
    ELSE ""

\* req holds the trimmed strings.
buildKey(req) ==
    IF req.user_id # "" THEN "user:" \o req.user_id
    ELSE IF req.device_id # "" THEN "device:" \o req.device_id
    ELSE IF req.jwt # "" THEN "jwt:" \o Sha256Hex(req.jwt)
    ELSE ""

\* A CheckRequest as decoded from the body, with the Authorization header;
\* json is FALSE for a body that does not decode.
CheckRequest(json, key, user_id, device_id, jwt, authorization, algorithm, limit, window_ms, capacity, refill_per_sec, leak_per_sec, cost) ==
    [json |-> json, key |-> key, user_id |-> user_id, device_id |-> device_id,
     jwt |-> jwt, authorization |-> authorization, algorithm |-> algorithm,
     limit |-> limit, window_ms |-> window_ms, capacity |-> capacity,
     refill_per_sec |-> refill_per_sec, leak_per_sec |-> leak_per_sec,
     cost |-> cost]

\* What Check leaves behind when it returns before the backend call.
Rejected(code, m, s) ==
    [written |-> <<ErrorResponse(400, code)>>, called |-> FALSE, call |-> NoReq,
     res |-> ZeroResult, err |-> FALSE, mem |-> m, store |-> s]

\* The capacity or limit, and the rate or windowMs, the switch passes on.
ParamA(algorithm, raw) ==
    IF algorithm \in BucketAlgorithms THEN raw.capacity ELSE raw.limit

ParamB(algorithm, raw) ==
    CASE algorithm = "token_bucket" -> raw.refill_per_sec
      [] algorithm = "leaky_bucket" -> raw.leak_per_sec
      [] OTHER -> raw.window_ms

RequiredCode(algorithm) ==
    CASE algorithm = "token_bucket" -> "capacity_and_refill_per_sec_required"
      [] algorithm = "leaky_bucket" -> "capacity_and_leak_per_sec_required"
      [] OTHER -> "limit_and_window_ms_required"

\* The call of the backend by the switch of Check, as q.
BackendCall(b, net, algorithm, m, s, q) ==
    IF b = "memory"
    THEN [local |-> MemAllow(algorithm, m, q.key, q.a, q.b, q.cost, q.nowMs),
          remote |-> [store |-> s, res |-> ZeroResult, sent |-> FALSE, err |-> FALSE]]
    ELSE [local |-> [mem |-> m, res |-> ZeroResult],
          remote |-> RedisCall(net, algorithm, s, q.nowMs, q.key, q.a, q.b,
                               q.cost, q.nowMs)]

\* What Check leaves behind after the backend call o for q.
Served(b, algorithm, q, o) ==
    [written |-> Respond(q.key, algorithm,
                         IF b = "memory" THEN o.local.res ELSE o.remote.res,
                         o.remote.err),
     called |-> TRUE, call |-> q,
     res |-> IF b = "memory" THEN o.local.res ELSE o.remote.res,
     err |-> o.remote.err, mem |-> o.local.mem, store |-> o.remote.store]

\* The switch of Check on the normalised algorithm and key.
Switch(raw, algorithm, key, cost, b, m, s, t, net) ==
    IF key = "" \/ algorithm = ""
    THEN Rejected("key_and_algorithm_required", m, s)
    ELSE IF algorithm \notin Algorithms
    THEN Rejected("unsupported_algorithm", m, s)
    ELSE IF ParamA(algorithm, raw) <= 0 \/ ParamB(algorithm, raw) <= 0
    THEN Rejected(RequiredCode(algorithm), m, s)
    ELSE Served(b, algorithm,
                [key |-> key, a |-> ParamA(algorithm, raw),
                 b |-> ParamB(algorithm, raw), cost |-> cost, nowMs |-> t],
                BackendCall(b, net, algorithm, m, s,
                            [key |-> key, a |-> ParamA(algorithm, raw),
                             b |-> ParamB(algorithm, raw), cost |-> cost,
                             nowMs |-> t]))

\* The key of the request: the explicit one, or the one buildKey derives, the
\* jwt being the body's or, failing that, the bearer token.
RequestKey(key0, jwt0, raw) ==
    IF key0 # "" THEN key0
    ELSE buildKey([user_id |-> Join(TrimSpace(raw.user_id)),
                   device_id |-> Join(TrimSpace(raw.device_id)),
                   jwt |-> IF jwt0 = "" THEN Join(bearerToken(raw.authorization))
                           ELSE jwt0])

\* Handler.Check on request raw, served by backend b with maps m and keyspace
\* s at time t; net is the outcome of the script run (remote backend).
HandlerCheck(raw, b, m, s, t, net) ==
    IF ~raw.json THEN Rejected("invalid_json", m, s)
    ELSE Switch(raw, Join(ToLower(TrimSpace(raw.algorithm))),
                RequestKey(Join(TrimSpace(raw.key)), Join(TrimSpace(raw.jwt)), raw),
                IF raw.cost = 0 THEN 1 ELSE raw.cost, b, m, s, t, net)

\* Check has answered with outcome o of the handler.
Answer(net, o) ==
    /\ WithinBounds(o.store)
    /\ mem' = o.mem
    /\ store' = o.store
    /\ http' = [phase |-> "done", req |-> http.req, net |-> net,
                written |-> o.written, called |-> o.called,
                call |-> o.call, res |-> o.res, err |-> o.err]

\* A request arrives.
Receive(requests) ==
    /\ http.phase \in {"none", "done"}
    /\ \E raw \in requests : http' = [phase |-> "received", req |-> raw]
    /\ UNCHANGED <<clock, backend, load, mem, mu, store, pc, now, snap, last,
                   lastRemote, hist, order, shadow>>

\* Check serves the request; the local backend ignores the context, the
\* remote one hands it to the script run.
Check ==
    /\ http.phase = "received"
    /\ \E net \in IF backend = "memory" THEN {"ok"} ELSE NetOutcomes :
          Answer(net, HandlerCheck(http.req, backend, mem, store, clock, net))
    /\ UNCHANGED <<clock, backend, load, mu, pc, now, snap, last, lastRemote,
                   hist, order, shadow>>

\* The requests of a run on one key with one algorithm: bodies that do not
\* decode, algorithm names trimmed and lowered, missing or unknown, parameters
\* present or not, any cost.
NoText == <<>>

HttpAlgorithms(algorithm) ==
    {<<algorithm>>, <<Space, Capitalized(algorithm), Space>>, NoText, <<"bogus">>}

HttpCosts == {-1, 0, 2}

HttpRequests(algorithm) ==
    {CheckRequest(FALSE, NoText, NoText, NoText, NoText, NoText, NoText,
                  0, 0, 0, 0, 0, 0)}
    \cup
    {CheckRequest(TRUE, <<"k">>, NoText, NoText, NoText, NoText, x,
                  IF algorithm \in BucketAlgorithms THEN 0 ELSE a,
                  IF algorithm \in BucketAlgorithms THEN 0 ELSE b,
                  IF algorithm \in BucketAlgorithms THEN a ELSE 0,
                  IF algorithm = "token_bucket" THEN b ELSE 0,
                  IF algorithm = "leaky_bucket" THEN b ELSE 0,
                  cost) :
        x \in HttpAlgorithms(algorithm), a \in {0} \cup ParamsA(algorithm),
        b \in {0} \cup ParamsB(algorithm), cost \in HttpCosts}

HttpLoads == {Load(x, {}, {}, {}, Instants, {}, "none") : x \in Algorithms}

InitHttp == InitWith(Backends, HttpLoads)

NextHttp ==
    \/ Receive(HttpRequests(load.alg))
    \/ Check
    \/ Tick

SpecHttp == InitHttp /\ [][NextHttp]_vars

\* One request with a valid algorithm and parameters and any combination of
\* key, user_id, device_id, jwt and Authorization header.
KeyTexts == {NoText, <<Space>>, <<Space, "k", Space>>, <<"a", Space, "b">>}
UserTexts == {NoText, <<Space>>, <<"u", Space>>}
DeviceTexts == {NoText, <<Space, "d">>}
JwtTexts == {NoText, <<Space>>, <<"t1">>}
AuthTexts ==
    {NoText, <<"Bearer", Space, "t2">>, <<Space, "BEARER", Space, Space, "t2", Space>>,
     <<"Basic", Space, "t2">>, <<"Bearer">>, <<"Bearer", Space>>, <<"t2">>}

KeyRequests ==
    {CheckRequest(TRUE, k, u, d, j, h, <<"fixed_window">>, 1, 1000, 0, 0, 0, 1) :
        k \in KeyTexts, u \in UserTexts, d \in DeviceTexts, j \in JwtTexts,
        h \in AuthTexts}

InitKey ==
    /\ InitCore(Backends, {Load("fixed_window", {}, {}, {}, {0}, {}, "none")})
    /\ http \in {[phase |-> "received", req |-> raw] : raw \in KeyRequests}
    /\ shadow = <<>>

NextKey == Check

SpecKey == InitKey /\ [][NextKey]_vars

-----------------------------------------------------------------------------
(* A reply of the store handed to a RedisBackend method.                    *)

ReplyElements ==
    {IntValue(0), IntValue(1), [kind |-> "str", text |-> "7"],
     [kind |-> "str", text |-> "x"], [kind |-> "float", milli |-> 1500],
     [kind |-> "nil"]}

\* Lists of 0 to MaxReplyLen elements.
MaxReplyLen == 4

Replies ==
    {[kind |-> "nil"], [kind |-> "str", text |-> "OK"], IntValue(1)}
    \cup {[kind |-> "list", items |-> x] :
            x \in UNION {[1..n -> ReplyElements] : n \in 0..MaxReplyLen}}

InitDecode ==
    /\ InitCore({"redis"}, {Load(x, {1}, ParamsB(x), {1}, {0}, {}, "none") :
                               x \in {"fixed_window"}})
    /\ http \in {[phase |-> "reply", reply |-> v] : v \in Replies}
    /\ shadow = <<>>

\* script.Run(...).Result() returned the reply and no error: the method
\* returns parseResult(res), nil and Check answers.
Decode ==
    /\ http.phase = "reply"
    /\ LET res == parseResult(http.reply)
       IN http' = [phase |-> "decoded", reply |-> http.reply, res |-> res,
                   written |-> Respond(CHOOSE k \in Keys : TRUE, load.alg, res, FALSE)]
    /\ UNCHANGED <<clock, backend, load, mem, mu, store, pc, now, snap, last,
                   lastRemote, hist, order, shadow>>

NextDecode == Decode

SpecDecode == InitDecode /\ [][NextDecode]_vars

\* Requests that reach the backends with a parameter <= 0 (Handler.Check
\* lets a negative cost through; the Backend interface takes any value),
\* one caller.
GuardLoads ==
    {Load(x, {0, 1}, {-1} \cup ParamsB(x), {-1, 0, 1}, Instants, {"c1"}, "none") :
        x \in Algorithms}

InitGuard == InitWith(Backends, GuardLoads)

SpecGuard == InitGuard /\ [][Next]_vars

\* Sliding window log: fixed limit and windowMs, cost 1, two callers; and the
\* scenario of the spec (limit 3, windowMs 1000) with one caller.
LogScenarioLoad ==
    Load("sliding_window_log", {3}, {1000}, {1}, LogScenarioInstants, {"c1"}, "calls")

LogLoads ==
    {Load("sliding_window_log", {a}, {b}, {1}, Instants, Callers, "admits") :
        a \in Limits, b \in Windows} \cup {LogScenarioLoad}

InitLog == InitWith(Backends, LogLoads)

SpecLog == InitLog /\ [][Next]_vars

\* One client, fixed parameters, cost 1, a clock that reaches two windows
\* past the first; one backend, or both given the same requests.
SeqLoads ==
    UNION {{Load(x, {a}, {b}, {1}, FarInstants, {"c1"}, "none") :
                a \in ParamsA(x), b \in ParamsB(x)} : x \in Algorithms}

InitSeq == InitWith(Backends \cup {"both"}, SeqLoads)

SpecSeq == InitSeq /\ [][Next]_vars

\* Fixed window, one client whose requests both backends are given, fixed
\* limit and windowMs, cost 1 or 2.
PairLoads ==
    {Load("fixed_window", {a}, {b}, {1, 2}, Instants, {"c1"}, "none") :
        a \in Limits, b \in Windows}

InitPair == InitWith({"both"}, PairLoads)

SpecPair == InitPair /\ [][Next]_vars

\* Sliding window counter: one client, fixed limit and windowMs, cost 1, a
\* clock that stops inside a window and skips whole windows.
CounterLoads ==
    {Load("sliding_window_counter", {a}, {b}, {1}, Instants \cup FarInstants,
          {"c1"}, "admits") : a \in Limits, b \in Windows}

InitCounter == InitWith(Backends, CounterLoads)

SpecCounter == InitCounter /\ [][Next]_vars

\* Sliding window counter: one client whose requests choose the limit and
\* the cost from call to call.
RuleLoads ==
    {Load("sliding_window_counter", Limits, {b}, {1, 2}, Instants \cup FarInstants,
          {"c1"}, "none") : b \in Windows}

InitRule == InitWith(Backends, RuleLoads)

SpecRule == InitRule /\ [][Next]_vars

\* Token bucket: one client, fixed capacity and refill, cost 1, calls at 0
\* and at the instants a denied call at 0 is told to wait for.
BurstCapacities == {1, 2, 10}

BurstRates == {1, 3, 5}

BurstInstants == {0} \cup {CeilDiv(MsPerSec, r) : r \in BurstRates}

BurstLoads ==
    {Load("token_bucket", {a}, {r}, {1}, BurstInstants, {"c1"}, "calls") :
        a \in BurstCapacities, r \in BurstRates}

InitBurst == InitWith(Backends, BurstLoads)

SpecBurst == InitBurst /\ [][Next]_vars

-----------------------------------------------------------------------------
(* The remote backend next to a store that keeps every key: shadow holds    *)
(* the keyspace of that store and the Result of the last call on it.        *)

\* The keyspace with every TTL removed (PERSIST on every key).
NeverEvict(s) == [k \in DOMAIN s |-> [s[k] EXCEPT !.persist = TRUE, !.exp = 0]]

\* The call q was answered: o by the store, f by the store that never evicts.
Answered(q, o, f) ==
    /\ WithinBounds(o.store)
    /\ store' = o.store
    /\ shadow' = [store |-> NeverEvict(f.store), res |-> f.res]
    /\ last' = [valid |-> TRUE, req |-> q, srv |-> clock, res |-> o.res]

\* A method of RedisBackend as a whole: nowMs is read and the script runs.
RemoteCall ==
    /\ backend = "redis"
    /\ \E key \in Keys, a \in load.as, b \in load.bs, cost \in load.costs :
          Answered([key |-> key, a |-> a, b |-> b, cost |-> cost, nowMs |-> clock],
                   RedisAllow(load.alg, store, clock, key, a, b, cost, clock),
                   RedisAllow(load.alg, shadow.store, clock, key, a, b, cost, clock))
    /\ UNCHANGED <<clock, backend, load, mem, mu, pc, now, snap, lastRemote,
                   hist, order, http>>

\* Instants up to a window and three quarters past a window of 2000 ms.
TtlInstants == {0, 1500, 3500}

\* Window lengths on both sides of the grace of the TTL.
TtlWindows == {1000, 2000}

\* One client, fixed parameters; windows of 1000 and 2000 ms.
TtlLoads ==
    UNION {{Load(x, {a}, {b}, {1}, TtlInstants, {}, "none") :
                a \in ParamsA(x),
                b \in IF x \in BucketAlgorithms THEN Rates ELSE TtlWindows} :
           x \in Algorithms}

InitTtl ==
    /\ InitCore({"redis"}, TtlLoads)
    /\ http = NoHttp
    /\ shadow = [store |-> <<>>, res |-> ZeroResult]

NextTtl ==
    \/ RemoteCall
    \/ Tick

SpecTtl == InitTtl /\ [][NextTtl]_vars

-----------------------------------------------------------------------------
(* Two algorithms on one logical key in one store: shadow holds, for each   *)
(* algorithm, the keyspace of a store that only this algorithm uses, and    *)
(* the Result of the last call on it.                                       *)

\* Logical keys, some of them shaped like the store keys of an algorithm.
MixKeys == {"k", "tb:k", "k:0", "k:seq", "swl:k", "swc:k:0"}

\* One logical key and two algorithms for the whole run, either of them at
\* every call; limit or capacity 1.
MixLoads ==
    {[alg |-> "any", as |-> {1}, bs |-> {}, costs |-> {1}, instants |-> Instants,
      callers |-> {}, record |-> "none", key |-> k, algs |-> p] :
        k \in MixKeys, p \in {q \in SUBSET Algorithms : Cardinality(q) = 2}}

\* The string counters are within the bound of the model.
CountersWithin(s) ==
    \A k \in DOMAIN s : s[k].type = "string" => s[k].val <= MaxCount

\* The call q of algorithm x was answered: o by the shared store, f by the
\* store of x alone.
MixAnswered(x, q, o, f) ==
    /\ CountersWithin(o.store)
    /\ store' = o.store
    /\ shadow' = [stores |-> [shadow.stores EXCEPT ![x] = f.store], res |-> f.res]
    /\ last' = [valid |-> TRUE, req |-> q, srv |-> clock, res |-> o.res]

\* A method of RedisBackend, of either algorithm, called on the logical key.
MixCall ==
    /\ backend = "redis"
    /\ \E x \in load.algs, a \in load.as, cost \in load.costs :
       \E b \in ParamsB(x) :
          MixAnswered(x, [key |-> load.key, a |-> a, b |-> b, cost |-> cost,
                          nowMs |-> clock],
                      RedisAllow(x, store, clock, load.key, a, b, cost, clock),
                      RedisAllow(x, shadow.stores[x], clock, load.key, a, b, cost,
                                 clock))
    /\ UNCHANGED <<clock, backend, load, mem, mu, pc, now, snap, lastRemote,
                   hist, order, http>>

InitMix ==
    /\ InitCore({"redis"}, MixLoads)
    /\ http = NoHttp
    /\ shadow = [stores |-> [x \in Algorithms |-> <<>>], res |-> ZeroResult]

NextMix ==
    \/ MixCall
    \/ Tick

SpecMix == InitMix /\ [][NextMix]_vars

-----------------------------------------------------------------------------
(* Two (algorithm, logical key) pairs on one backend: shadow holds, for     *)
(* each pair, the maps and the keyspace of a backend that only this pair    *)
(* uses, and the Result of the last call on it.                             *)

\* Logical keys: plain, containing ':', beginning with a prefix of the remote
\* backend.  Store keys that two pairs over these keys share hold values of
\* one type.
CrossKeys == {"k", "k:0", "swc:k"}

CrossPairs == Algorithms \X CrossKeys

\* Two different pairs for the whole run, either of them at every call;
\* limit or capacity 1.
CrossLoads ==
    {[alg |-> "pair", as |-> {1}, bs |-> {}, costs |-> {1}, instants |-> Instants,
      callers |-> {}, record |-> "none", pairs |-> ps] :
        ps \in {qs \in SUBSET CrossPairs : Cardinality(qs) = 2}}

\* The call q of pair p was answered by the local backend: o on the shared
\* maps, f on the maps of p alone.
CrossLocalAnswered(p, q, o, f) ==
    /\ mem' = o.mem
    /\ shadow' = [shadow EXCEPT !.mems[p] = f.mem, !.res = f.res]
    /\ last' = [valid |-> TRUE, req |-> q, srv |-> clock, res |-> o.res]

\* A method of MemoryBackend called for either pair.
CrossLocalCall ==
    /\ backend = "memory"
    /\ \E p \in load.pairs, a \in load.as, cost \in load.costs :
       \E b \in ParamsB(p[1]) :
          CrossLocalAnswered(p, [key |-> p[2], a |-> a, b |-> b, cost |-> cost,
                                 nowMs |-> clock],
                             MemAllow(p[1], mem, p[2], a, b, cost, clock),
                             MemAllow(p[1], shadow.mems[p], p[2], a, b, cost, clock))
    /\ UNCHANGED <<clock, backend, load, mu, store, pc, now, snap, lastRemote,
                   hist, order, http>>

\* The call q of pair p was answered by the remote backend: o by the shared
\* store, f by the store of p alone.
CrossRemoteAnswered(p, q, o, f) ==
    /\ CountersWithin(o.store)
    /\ store' = o.store
    /\ shadow' = [shadow EXCEPT !.stores[p] = f.store, !.res = f.res]
    /\ last' = [valid |-> TRUE, req |-> q, srv |-> clock, res |-> o.res]

\* A method of RedisBackend called for either pair.
CrossRemoteCall ==
    /\ backend = "redis"
    /\ \E p \in load.pairs, a \in load.as, cost \in load.costs :
       \E b \in ParamsB(p[1]) :
          CrossRemoteAnswered(p, [key |-> p[2], a |-> a, b |-> b, cost |-> cost,
                                  nowMs |-> clock],
                              RedisAllow(p[1], store, clock, p[2], a, b, cost, clock),
                              RedisAllow(p[1], shadow.stores[p], clock, p[2], a, b,
                                         cost, clock))
    /\ UNCHANGED <<clock, backend, load, mem, mu, pc, now, snap, lastRemote,
                   hist, order, http>>

InitCross ==
    /\ InitCore(Backends, CrossLoads)
    /\ http = NoHttp
    /\ shadow = [mems |-> [p \in load.pairs |-> NewMemoryBackend],
                 stores |-> [p \in load.pairs |-> <<>>], res |-> ZeroResult]

NextCross ==
    \/ CrossLocalCall
    \/ CrossRemoteCall
    \/ Tick

SpecCross == InitCross /\ [][NextCross]_vars

-----------------------------------------------------------------------------
(* Properties of the Result of the most recent decision *)

\* The request of the most recent decision met the preconditions of the
\* contract: every parameter positive.
LastValid == last.valid /\ last.req.a > 0 /\ last.req.b > 0 /\ last.req.cost > 0

\* C1 as stated: for every call with any parameter values,
\* retry_after_ms = 0 iff allowed, and reset_at_ms >= the now_ms observed.
C1_AnyParameters ==
    last.valid =>
        /\ (last.res.retryAfterMs = 0) <=> last.res.allowed
        /\ last.res.resetAtMs >= last.req.nowMs

\* C1 amended: for every call whose parameters are all positive, on either
\* backend and for each algorithm, retry_after_ms = 0 iff allowed, and
\* reset_at_ms >= the now_ms the call observed.
C1_RetryIffDenied ==
    LastValid =>
        /\ (last.res.retryAfterMs = 0) <=> last.res.allowed
        /\ last.res.resetAtMs >= last.req.nowMs

\* A denied decision with positive parameters, taken with a stale nowMs.
C1_Witness ==
    /\ LastValid
    /\ ~last.res.allowed
    /\ last.res.retryAfterMs > 0
    /\ last.req.nowMs < last.srv

\* C2 as stated: every Result has remaining >= 0.
C2_RemainingNonNegative == last.valid => last.res.remaining >= 0

-----------------------------------------------------------------------------
(* Properties of the stored state *)

\* The stored level of the bucket of the most recent decision, in thousandths:
\* tokens or water in the local maps, the hash field in the store.
HasBucket ==
    /\ last.valid
    /\ load.alg \in BucketAlgorithms
    /\ IF backend = "memory"
       THEN last.req.key \in DOMAIN (IF load.alg = "token_bucket"
                                     THEN mem.tokenBuckets ELSE mem.leakyBuckets)
       ELSE ((IF load.alg = "token_bucket" THEN "tb:" ELSE "lb:") \o last.req.key)
               \in DOMAIN store

BucketLevel ==
    IF backend = "memory"
    THEN IF load.alg = "token_bucket"
         THEN mem.tokenBuckets[last.req.key].tokens
         ELSE mem.leakyBuckets[last.req.key].water
    ELSE IF load.alg = "token_bucket"
         THEN store["tb:" \o last.req.key].val.tokens
         ELSE store["lb:" \o last.req.key].val.water

\* C3 as stated: after every bucket call, 0 <= tokens <= capacity and
\* 0 <= water <= capacity, whatever the order in which observed clock values
\* reach the state (runs with one fixed capacity and rate).
C3_BucketWithinCapacity ==
    HasBucket => 0 <= BucketLevel /\ BucketLevel <= last.req.a * Milli

-----------------------------------------------------------------------------
(* Properties of the admitted decisions (runs with fixed parameters, cost 1) *)

\* The one limit and the one windowMs of a run with fixed parameters.
TheLimit == CHOOSE a \in load.as : TRUE
TheWindow == CHOOSE b \in load.bs : TRUE

\* Cost admitted with an observed nowMs in the set T.
Admitted(T) == SumOver([t \in DOMAIN hist |-> hist[t].adm], T \cap DOMAIN hist)

\* The instants of the epoch-aligned window that starts at w.
AlignedWindow(w) ==
    {t \in DOMAIN hist : t - (t % TheWindow) = w}

\* C4: callers racing on one key inside one window with limit K: a decision is
\* denied only when K have been admitted and no more than K ever are, so of
\* N >= K decisions exactly K are admitted, under every interleaving (fixed
\* window and sliding log, either backend).
C4_ExactlyLimitAdmitted ==
    (/\ load.alg \in {"fixed_window", "sliding_window_log"}
     /\ last.valid
     /\ clock < TheWindow)
    => /\ Admitted(DOMAIN hist) <= TheLimit
       /\ ~last.res.allowed => Admitted(DOMAIN hist) = TheLimit

\* Two callers were admitted with the same nowMs and a later one was denied.
C4_Witness ==
    /\ load.alg \in {"fixed_window", "sliding_window_log"}
    /\ TheLimit = 2
    /\ clock < TheWindow
    /\ hist[0].adm = 2
    /\ last.valid /\ ~last.res.allowed
    /\ \E p \in Callers : pc[p] = "ready"

\* C5 as stated: fixed window, fixed limit and windowMs, cost 1: in every
\* epoch-aligned window at most limit decisions whose observed nowMs lies in
\* it are admitted, whatever the order in which callers that have read the
\* clock enter the critical section.
C5_AtMostLimitPerWindow ==
    load.alg = "fixed_window" =>
        \A w \in DOMAIN hist : Admitted(AlignedWindow(w)) <= TheLimit

-----------------------------------------------------------------------------
(* Sliding window log *)

\* Cost admitted with an observed nowMs in (t - windowMs, t].
AdmittedWithin(t) ==
    Admitted({u \in DOMAIN hist : t - TheWindow < u /\ u <= t})

\* The number of timestamps the log of the most recent decision holds.
StoredLogSize ==
    IF backend = "memory"
    THEN IF last.req.key \in DOMAIN mem.slidingLogs
         THEN Len(mem.slidingLogs[last.req.key]) ELSE 0
    ELSE ZCard(store, "swl:" \o last.req.key)

\* The calls of the scenario: one at each of these instants, in this order.
LogScenarioCalls == {0, 400, 800, 900, 1050}

\* So far exactly one decision was taken at each scenario instant up to t.
OneCallEachUpTo(t) ==
    \A u \in DOMAIN hist :
        hist[u].adm + hist[u].den = IF u \in LogScenarioCalls /\ u <= t THEN 1 ELSE 0

\* limit 3, windowMs 1000: calls at 0, 400, 800 admitted, 900 denied, 1050 admitted.
LogScenario ==
    (/\ load = LogScenarioLoad
     /\ last.valid
     /\ OneCallEachUpTo(last.req.nowMs))
    => (last.res.allowed <=> last.req.nowMs # 900)

\* A timestamp is evicted exactly when it is <= now - windowMs: right after a
\* decision taken in order of observed time, the log holds the admits with
\* nowMs in (now - windowMs, now] and no others.
LogEvictsExactly ==
    (last.valid /\ order.ok /\ clock = last.srv)
    => StoredLogSize = AdmittedWithin(last.req.nowMs)

-----------------------------------------------------------------------------
(* The two backends side by side *)

\* C7 as stated: given the same requests and the same clock values by one
\* client, the local and the remote backend return the same allowed.
C7_SameAllowed ==
    (backend = "both" /\ last.valid) => last.res.allowed = lastRemote.allowed

-----------------------------------------------------------------------------
(* A decision that observes a nowMs before the stored time *)

\* The cost the step admits, in thousandths.
AdmittedCost == IF last'.res.allowed THEN last'.req.cost * Milli ELSE 0

\* Local backend: caller p finishes its critical section on key k.
MemSkewKept(p, k) ==
    /\ (/\ load.alg = "token_bucket"
        /\ k \in DOMAIN mem.tokenBuckets
        /\ now[p] < mem.tokenBuckets[k].lastMs)
       => mem'.tokenBuckets[k].tokens >= mem.tokenBuckets[k].tokens - AdmittedCost
    /\ (/\ load.alg = "leaky_bucket"
        /\ k \in DOMAIN mem.leakyBuckets
        /\ now[p] < mem.leakyBuckets[k].lastMs)
       => mem'.leakyBuckets[k].water <= mem.leakyBuckets[k].water + AdmittedCost
    /\ (/\ load.alg = "fixed_window"
        /\ k \in DOMAIN mem.fixedWindows
        /\ now[p] < mem.fixedWindows[k].windowStartMs)
       => /\ mem'.fixedWindows[k].windowStartMs = mem.fixedWindows[k].windowStartMs
          /\ mem'.fixedWindows[k].count >= mem.fixedWindows[k].count
    /\ (/\ load.alg = "sliding_window_counter"
        /\ k \in DOMAIN mem.slidingCounters
        /\ now[p] < mem.slidingCounters[k].windowStartMs)
       => /\ mem'.slidingCounters[k].windowStartMs
                = mem.slidingCounters[k].windowStartMs
          /\ mem'.slidingCounters[k].prevCount = mem.slidingCounters[k].prevCount
          /\ mem'.slidingCounters[k].currentCount
                >= mem.slidingCounters[k].currentCount

\* Remote backend: the script runs for caller p on key k.
RedisSkewKept(p, k) ==
    /\ (/\ load.alg = "token_bucket"
        /\ Live(store, "tb:" \o k, clock)
        /\ now[p] < store["tb:" \o k].val.last_ms)
       => store'["tb:" \o k].val.tokens
             >= store["tb:" \o k].val.tokens - AdmittedCost
    /\ (/\ load.alg = "leaky_bucket"
        /\ Live(store, "lb:" \o k, clock)
        /\ now[p] < store["lb:" \o k].val.last_ms)
       => store'["lb:" \o k].val.water
             <= store["lb:" \o k].val.water + AdmittedCost
    /\ load.alg \in {"fixed_window", "sliding_window_counter"}
       => \A x \in DOMAIN store :
             Live(store, x, clock)
             => x \in DOMAIN store' /\ store'[x].val >= store[x].val

\* C8 as stated: a decision that observes a nowMs smaller than the stored
\* last_ms (or window start) applies no refill or leak: tokens are not
\* decreased and water is not increased by the elapsed-time term, window
\* counters are not reset or rolled over; on both backends.
C8_BackwardSkewKeepsState ==
    [][\A p \in Callers, k \in Keys :
          /\ (backend = "memory" /\ pc[p] = "locked" /\ pc'[p] = "idle")
             => MemSkewKept(p, k)
          /\ (backend = "redis" /\ pc[p] = "ready" /\ pc'[p] = "idle")
             => RedisSkewKept(p, k)]_vars

-----------------------------------------------------------------------------
(* What the Result promises about the next decision *)

\* The Result of a further decision with request q taken on the present
\* state at server time t.
Further(q, t) == Outcome(backend, mem, store, t, load.alg, q).res

\* C9 as stated: a request denied with retry_after_ms = r is admitted when it
\* is issued again at now + r with nothing else touching the key in between
\* (all five algorithms, both backends).
C9_RetrySucceeds ==
    (/\ LastValid
     /\ backend # "both"
     /\ clock = last.srv
     /\ ~last.res.allowed)
    => Further([last.req EXCEPT !.nowMs = @ + last.res.retryAfterMs],
               clock + last.res.retryAfterMs).allowed

\* Costs of a further request.
FurtherCosts == 1..3

\* C10: right after a decision with positive parameters that returned
\* remaining = r, a further decision on the key with the same parameters and
\* the same nowMs is admitted iff its cost is <= r (all five algorithms, both
\* backends).
C10_RemainingAdmits ==
    (LastValid /\ clock = last.srv)
    => \A c \in FurtherCosts :
          Further([last.req EXCEPT !.cost = c], clock).allowed
             <=> c <= last.res.remaining

\* A decision left a fraction of a token: remaining is 0 although the bucket
\* is not empty, and a further request of cost 1 is denied.
C10_Witness ==
    /\ LastValid /\ clock = last.srv
    /\ load.alg = "token_bucket"
    /\ last.res.remaining = 0
    /\ HasBucket /\ BucketLevel > 0
    /\ ~Further([last.req EXCEPT !.cost = 1], clock).allowed

-----------------------------------------------------------------------------
(* Parameters <= 0 *)

NonPositive(q) == q.a <= 0 \/ q.b <= 0 \/ q.cost <= 0

\* C11: a decision of either backend called with capacity, rate, limit,
\* windowMs or cost <= 0 returns the zero Result and no error, leaves the
\* state of every key as it was, and (remote backend) runs no script.
C11_DefensiveNoOp ==
    [][\A p \in Callers :
          (pc[p] \in {"ready", "locked"} /\ pc'[p] = "idle" /\ NonPositive(last'.req))
          => /\ last'.res = ZeroResult
             /\ mem' = mem
             /\ store' = store
             /\ \A net \in NetOutcomes :
                   LET q == last'.req
                       c == RedisCall(net, load.alg, store, clock, q.key, q.a, q.b,
                                      q.cost, q.nowMs)
                   IN ~c.sent /\ ~c.err /\ c.store = store]_vars

\* A call with a parameter <= 0 was answered on a key that holds state.
C11_Witness ==
    /\ last.valid /\ NonPositive(last.req) /\ last.res = ZeroResult
    /\ \/ backend = "redis" /\ store # <<>>
       \/ backend = "memory" /\ mem # NewMemoryBackend

-----------------------------------------------------------------------------
(* Replies that cannot be decoded *)

Numeric(value) ==
    \/ value.kind \in {"int", "float"}
    \/ value.kind = "str" /\ value.text \in DOMAIN Numerals

Undecodable(value) ==
    \/ value.kind # "list"
    \/ Len(value.items) < 4
    \/ \E i \in DOMAIN value.items : ~Numeric(value.items[i])

\* C12 as stated: a remote reply that is not a list, has fewer than 4
\* elements or has non-numeric elements makes the handler answer 500
\* backend_error, never a 200 or 429 decision.
C12_UndecodableIsFailure ==
    (http.phase = "decoded" /\ Undecodable(http.reply))
    => /\ Len(http.written) = 1
       /\ http.written[1].status = 500
       /\ http.written[1].error = "backend_error"

-----------------------------------------------------------------------------
(* The check endpoint *)

\* C13 as stated: a call of the backend that returns a failure to the caller
\* has not charged the limiter: the maps of the local backend and the
\* keyspace of the store are as before the call.
C13_FailureChargesNothing ==
    [][(http.phase = "received" /\ http'.phase = "done" /\ http'.err)
       => (mem' = mem /\ store' = store)]_vars

\* A string of blanks only, or empty.
Blank(s) == \A i \in DOMAIN s : s[i] = Space

\* The name a request gives its algorithm, without blanks and capitals.
NamedAlgorithm(raw) ==
    Join([i \in DOMAIN SelectSeq(raw.algorithm, LAMBDA x : x # Space) |->
            ToLowerWord(SelectSeq(raw.algorithm, LAMBDA x : x # Space)[i])])

\* The request names nothing a key could be made of.
NoIdentity(raw) ==
    /\ Blank(raw.key) /\ Blank(raw.user_id) /\ Blank(raw.device_id)
    /\ Blank(raw.jwt) /\ bearerToken(raw.authorization) = <<>>

\* The error code of an invalid request, "" for a valid one: a body that
\* does not decode, no key or no algorithm, an algorithm outside the five,
\* a required parameter of the algorithm missing (zero) or not positive.
InvalidCode(raw) ==
    IF ~raw.json THEN "invalid_json"
    ELSE IF NoIdentity(raw) \/ Blank(raw.algorithm) THEN "key_and_algorithm_required"
    ELSE CASE NamedAlgorithm(raw) = "token_bucket" ->
                IF raw.capacity <= 0 \/ raw.refill_per_sec <= 0
                THEN "capacity_and_refill_per_sec_required" ELSE ""
           [] NamedAlgorithm(raw) = "leaky_bucket" ->
                IF raw.capacity <= 0 \/ raw.leak_per_sec <= 0
                THEN "capacity_and_leak_per_sec_required" ELSE ""
           [] NamedAlgorithm(raw) \in {"fixed_window", "sliding_window_log",
                                      "sliding_window_counter"} ->
                IF raw.limit <= 0 \/ raw.window_ms <= 0
                THEN "limit_and_window_ms_required" ELSE ""
           [] OTHER -> "unsupported_algorithm"

\* C14: every request to the check endpoint gets exactly one response: 400
\* with the specific error code when the input is invalid, 500 backend_error
\* when the backend returns a failure, otherwise 200 iff the Result has
\* allowed = true and 429 iff it has allowed = false; every 200 and 429
\* carries the three X-RateLimit headers with the Result's remaining,
\* reset_at_ms and retry_after_ms.
C14_OneStatus ==
    http.phase = "done"
    => LET w == http.written
       IN /\ Len(w) = 1
          /\ IF InvalidCode(http.req) # ""
             THEN /\ w[1].status = 400
                  /\ w[1].error = InvalidCode(http.req)
                  /\ ~http.called
             ELSE /\ http.called
                  /\ IF http.err
                     THEN w[1].status = 500 /\ w[1].error = "backend_error"
                     ELSE /\ w[1].status \in {200, 429}
                          /\ w[1].status = 200 <=> http.res.allowed
                          /\ w[1].status = 429 <=> ~http.res.allowed
                          /\ w[1].headers["X-RateLimit-Remaining"]
                                = ToString(http.res.remaining)
                          /\ w[1].headers["X-RateLimit-Reset-Ms"]
                                = ToString(http.res.resetAtMs)
                          /\ w[1].headers["X-RateLimit-Retry-After-Ms"]
                                = ToString(http.res.retryAfterMs)

\* A valid request was denied with a time to wait.
C14_Witness ==
    /\ http.phase = "done" /\ InvalidCode(http.req) = "" /\ ~http.err
    /\ http.written[1].status = 429
    /\ http.res.retryAfterMs > 0
    /\ http.written[1].headers["X-RateLimit-Retry-After-Ms"]
          = ToString(http.res.retryAfterMs)

-----------------------------------------------------------------------------
(* Key selection *)

\* A string without the blanks around it.
Stripped(s) ==
    IF Blank(s) THEN <<>>
    ELSE LET i == CHOOSE j \in DOMAIN s :
                     s[j] # Space /\ \A l \in 1..(j - 1) : s[l] = Space
             k == CHOOSE j \in DOMAIN s :
                     s[j] # Space /\ \A l \in (j + 1)..Len(s) : s[l] = Space
         IN SubSeq(s, i, k)

\* The token of an Authorization header "Bearer <token>", in any
\* capitalisation of the scheme; empty without one.
BearerOf(header) ==
    LET h == Stripped(header)
    IN IF Len(h) >= 3 /\ h[1] \in {"bearer", "Bearer", "BEARER"} /\ h[2] = Space
       THEN Stripped(SubSeq(h, 3, Len(h)))
       ELSE <<>>

\* The key the claim selects for a request, "" when it names none.
ExpectedKey(raw) ==
    IF ~Blank(raw.key) THEN Join(Stripped(raw.key))
    ELSE IF ~Blank(raw.user_id) THEN "user:" \o Join(Stripped(raw.user_id))
    ELSE IF ~Blank(raw.device_id) THEN "device:" \o Join(Stripped(raw.device_id))
    ELSE IF ~Blank(raw.jwt) THEN "jwt:" \o Sha256Hex(Join(Stripped(raw.jwt)))
    ELSE IF BearerOf(raw.authorization) # <<>>
    THEN "jwt:" \o Sha256Hex(Join(BearerOf(raw.authorization)))
    ELSE ""

\* C15: an explicit non-blank key is used unchanged after trimming;
\* otherwise the key is "user:{id}", "device:{id}" or "jwt:{hex sha256}" of
\* the first non-blank of user_id, device_id, jwt, the Authorization bearer
\* token standing in for jwt only when the body's jwt is blank; a request
\* with none of these is answered 400 key_and_algorithm_required and the
\* backend is not called.
C15_KeySelection ==
    http.phase = "done"
    => IF ExpectedKey(http.req) = ""
       THEN /\ ~http.called
            /\ Len(http.written) = 1
            /\ http.written[1].status = 400
            /\ http.written[1].error = "key_and_algorithm_required"
       ELSE /\ http.called
            /\ http.call.key = ExpectedKey(http.req)
            /\ ~http.err => http.written[1].body.key = ExpectedKey(http.req)

\* The backend was called on the key of a bearer token, the key, user_id
\* and jwt of the body being blank and its device_id empty.
C15_Witness ==
    /\ http.phase = "done"
    /\ http.called
    /\ Blank(http.req.key) /\ http.req.user_id = <<Space>>
    /\ http.req.device_id = NoText /\ http.req.jwt = <<Space>>
    /\ http.req.authorization = <<Space, "BEARER", Space, Space, "t2", Space>>
    /\ http.call.key = "jwt:sha256(t2)"

-----------------------------------------------------------------------------
(* Fixed window, the two backends inside one window *)

\* C16 as stated: for every sequence of decisions on one key inside one
\* window, denials and costs above 1 included, the local and the remote
\* backend return the same allowed.
C16_SameAllowedInWindow ==
    (backend = "both" /\ last.valid /\ clock < TheWindow)
    => last.res.allowed = lastRemote.allowed

-----------------------------------------------------------------------------
(* TTL of the remote backend *)

\* C17 as stated: with a monotonic clock the remote backend, whose keys
\* expire, returns for every algorithm and every sequence of decisions the
\* Results the same scripts return on a store that never evicts.
C17_SameAsNeverEvicting ==
    (backend = "redis" /\ last.valid) => last.res = shadow.res

-----------------------------------------------------------------------------
(* Key namespacing of the remote backend *)

\* The keys of the store of algorithm x alone that are live now.
LiveKeys(x) == DOMAIN Purge(shadow.stores[x], clock)

\* C18: for one and the same logical key the store keys of the five
\* algorithms are pairwise disjoint, and decisions of different algorithms
\* never read or overwrite each other's state: the shared store holds, key
\* by key, what the store of each algorithm alone holds, and every Result
\* is the one the algorithm returns on its own store.
C18_Namespaces ==
    backend = "redis" /\ load.alg = "any"
    => /\ \A x, y \in Algorithms :
             x # y => DOMAIN shadow.stores[x] \cap DOMAIN shadow.stores[y] = {}
       /\ DOMAIN store = UNION {LiveKeys(x) : x \in Algorithms}
       /\ \A x \in Algorithms : \A k \in LiveKeys(x) : store[k] = shadow.stores[x][k]
       /\ last.valid => last.res = shadow.res

\* Fixed window and sliding counter both hold state for the logical key
\* "swc:k:0", and the last call was denied.
C18_Witness ==
    /\ load.alg = "any"
    /\ load.algs = {"fixed_window", "sliding_window_counter"}
    /\ load.key = "swc:k:0"
    /\ \A x \in load.algs : LiveKeys(x) # {}
    /\ last.valid /\ ~last.res.allowed

-----------------------------------------------------------------------------
(* The window of a fixed-window decision *)

\* C19 as stated: every fixed-window decision of either backend uses the
\* epoch-aligned window of the observed time, reset_at_ms = (now_ms - now_ms
\* mod window_ms) + window_ms, and a denied one has retry_after_ms =
\* reset_at_ms - now_ms with 0 < retry_after_ms <= window_ms, whatever calls
\* came before, calls applied with a later observed time included.
C19_AlignedWindow ==
    (load.alg = "fixed_window" /\ LastValid)
    => LET q == last.req
           r == last.res
       IN /\ r.resetAtMs = (q.nowMs - (q.nowMs % q.b)) + q.b
          /\ ~r.allowed => /\ r.retryAfterMs = r.resetAtMs - q.nowMs
                           /\ 0 < r.retryAfterMs
                           /\ r.retryAfterMs <= q.b

-----------------------------------------------------------------------------
(* The log after a sliding-log decision *)

\* The timestamps the log of the most recent decision holds.
StoredStamps ==
    IF backend = "memory"
    THEN IF last.req.key \in DOMAIN mem.slidingLogs
         THEN {mem.slidingLogs[last.req.key][i] :
                 i \in DOMAIN mem.slidingLogs[last.req.key]}
         ELSE {}
    ELSE IF ("swl:" \o last.req.key) \in DOMAIN store
         THEN {e.score : e \in store["swl:" \o last.req.key].val}
         ELSE {}

\* C20 as stated: after every sliding-log decision of either backend
\* reset_at_ms is the smallest retained timestamp plus window_ms (now_ms +
\* window_ms when the log is empty) and current_count is the number of
\* retained entries, under every interleaving of callers that read the clock
\* before taking the mutex.
C20_ResetFromOldest ==
    (load.alg = "sliding_window_log" /\ LastValid /\ last.srv = clock)
    => /\ last.res.currentCount = StoredLogSize
       /\ last.res.resetAtMs =
             IF StoredStamps = {} THEN last.req.nowMs + last.req.b
             ELSE (CHOOSE u \in StoredStamps : \A v \in StoredStamps : u <= v)
                  + last.req.b

-----------------------------------------------------------------------------
(* The previous window of a sliding-counter decision *)

\* The start of the aligned window of the most recent decision.
LastWindowStart == last.req.nowMs - (last.req.nowMs % last.req.b)

\* The prev_count the most recent sliding-counter decision used: the
\* prevCount of the state of the local backend, the counter of the previous
\* window in the store.
PrevUsed ==
    IF backend = "memory"
    THEN mem.slidingCounters[last.req.key].prevCount
    ELSE GetCount(store, "swc:" \o last.req.key \o ":"
                         \o ToString(LastWindowStart - last.req.b))

\* C21 as stated: in every sliding-counter decision of either backend the
\* prev_count that enters the weighted sum is the cost admitted in the
\* aligned window just before the current one, 0 after a gap of two or more
\* whole windows without calls.
C21_PrevIsPrecedingWindow ==
    (load.alg = "sliding_window_counter" /\ LastValid /\ last.srv = clock)
    => PrevUsed = Admitted({u \in DOMAIN hist :
                              /\ LastWindowStart - last.req.b <= u
                              /\ u < LastWindowStart})

-----------------------------------------------------------------------------
(* The decision rule of the sliding counter *)

\* The current_count of the window starting at start, as the maps m of the
\* local backend or the keyspace s of the store hold it for key.
StoredCurrent(m, s, key, start) ==
    IF backend = "memory"
    THEN IF key \in DOMAIN m.slidingCounters
            /\ m.slidingCounters[key].windowStartMs = start
         THEN m.slidingCounters[key].currentCount
         ELSE 0
    ELSE GetCount(s, "swc:" \o key \o ":" \o ToString(start))

\* C22 as stated: with weight = (window_ms - (now - current_start)) /
\* window_ms and computed = prev_count * weight + current_count, a sliding
\* counter decision of either backend is admitted iff computed + cost <=
\* limit, an admit adds cost to current_count (and to computed), remaining =
\* max(0, floor(limit - computed)) and computed_count = ceil(computed).
\* Quantities are in units of 1 / window_ms.
C22_DecisionRule ==
    [][(pc["c1"] \in {"ready", "locked"} /\ pc'["c1"] = "idle")
       => LET q == last'.req
              r == last'.res
              start == q.nowMs - (q.nowMs % q.b)
              current0 == StoredCurrent(mem, store, q.key, start)
              current1 == StoredCurrent(mem', store', q.key, start)
              computed0 == PrevUsed' * (q.b - (q.nowMs - start)) + current0 * q.b
              admit == computed0 + q.cost * q.b <= q.a * q.b
              computed == IF admit THEN computed0 + q.cost * q.b ELSE computed0
          IN /\ r.allowed = admit
             /\ current1 = IF admit THEN current0 + q.cost ELSE current0
             /\ r.currentCount = current1
             /\ r.remaining = Max(0, FloorDiv(q.a * q.b - computed, q.b))
             /\ r.computedCount = CeilDiv(computed, q.b)]_vars

-----------------------------------------------------------------------------
(* The burst of a token bucket *)

\* The wait a call denied on an empty bucket is given: ceil(1000 / R).
BurstRetry == CeilDiv(MsPerSec, TheWindow)

\* The calls recorded at instant t.
CallsAt(t) == hist[t].adm + hist[t].den

\* C23: on a fresh key with capacity C and refill R per second, of C + 1
\* back-to-back cost-1 calls at the same instant exactly the first C are
\* admitted and the last is denied with retry_after_ms = ceil(1000 / R); one
\* more call that many milliseconds later is admitted.
C23_Burst ==
    (load.alg = "token_bucket" /\ load.record = "calls")
    => /\ (\A t \in DOMAIN hist \ {0} : CallsAt(t) = 0)
          => /\ hist[0].adm <= TheLimit
             /\ hist[0].den > 0 => hist[0].adm = TheLimit
             /\ (last.valid /\ ~last.res.allowed)
                => last.res.retryAfterMs = BurstRetry
       /\ ( /\ hist[0] = [adm |-> TheLimit, den |-> 1]
            /\ CallsAt(BurstRetry) = 1
            /\ \A t \in DOMAIN hist \ {0, BurstRetry} : CallsAt(t) = 0 )
          => hist[BurstRetry].adm = 1

\* Capacity 10, refill 5: ten calls at 0 admitted, the eleventh denied with
\* retry_after_ms = 200, and the call at 200 admitted.
C23_Witness ==
    /\ load.alg = "token_bucket" /\ load.record = "calls"
    /\ TheLimit = 10 /\ TheWindow = 5
    /\ hist[0] = [adm |-> 10, den |-> 1]
    /\ hist[200] = [adm |-> 1, den |-> 0]
    /\ last.valid /\ last.req.nowMs = 200 /\ last.res.allowed

-----------------------------------------------------------------------------
(* The stored count of the local window algorithms *)

WindowAlgorithms == {"fixed_window", "sliding_window_log", "sliding_window_counter"}

\* The count the maps m hold for the window of key that starts at start
\* (fixed window, sliding counter) or for the entries after cutoff (log).
FixedCount(m, key, start) ==
    IF key \in DOMAIN m.fixedWindows /\ m.fixedWindows[key].windowStartMs = start
    THEN m.fixedWindows[key].count
    ELSE 0

LogCount(m, key, cutoff) ==
    IF key \in DOMAIN m.slidingLogs
    THEN Cardinality({i \in DOMAIN m.slidingLogs[key] : m.slidingLogs[key][i] > cutoff})
    ELSE 0

\* The stored count of the current window of request q, the fixed window
\* being the one that starts at start.
WindowCount(m, q, start) ==
    CASE load.alg = "fixed_window" -> FixedCount(m, q.key, start)
      [] load.alg = "sliding_window_log" -> LogCount(m, q.key, q.nowMs - q.b)
      [] load.alg = "sliding_window_counter" ->
            IF q.key \in DOMAIN m.slidingCounters
               /\ m.slidingCounters[q.key].windowStartMs = q.nowMs - (q.nowMs % q.b)
            THEN m.slidingCounters[q.key].currentCount
            ELSE 0

\* C24: a denied decision of fixed window, sliding log or sliding counter of
\* the local backend leaves the stored count of the current window as it
\* was; an admitted one adds exactly cost to it.
C24_CountGrowsOnAdmit ==
    [][\A p \in Callers :
          ( /\ backend = "memory" /\ load.alg \in WindowAlgorithms
            /\ pc[p] = "locked" /\ pc'[p] = "idle"
            /\ ~NonPositive(last'.req) )
          => LET q == last'.req
                 start == mem'.fixedWindows[q.key].windowStartMs
             IN WindowCount(mem', q, start)
                = WindowCount(mem, q, start)
                  + (IF last'.res.allowed THEN q.cost ELSE 0)]_vars

\* The local backend denied a call of cost 2 of a window algorithm while
\* the key held a count.
C24_Witness ==
    /\ backend = "memory" /\ load.alg \in WindowAlgorithms
    /\ last.valid /\ ~NonPositive(last.req) /\ ~last.res.allowed
    /\ last.req.cost = 2
    /\ WindowCount(mem, last.req,
                   IF load.alg = "fixed_window"
                   THEN mem.fixedWindows[last.req.key].windowStartMs ELSE 0) > 0

-----------------------------------------------------------------------------
(* The admission bound of the token bucket *)

\* C25 as stated, for t0 = 0 and t1 = the clock, between which every
\* observed now_ms lies: with fixed capacity and refill the total cost a
\* token bucket of either backend has admitted on the key, the decisions
\* applied in any order, is at most capacity + refill_per_sec * (t1 - t0) /
\* 1000.  Both sides are in thousandths.
C25_AdmissionBound ==
    (load.alg = "token_bucket" /\ load.record = "admits")
    => Admitted(DOMAIN hist) * MsPerSec <= TheLimit * MsPerSec + TheWindow * clock

-----------------------------------------------------------------------------
(* The cost the handler dispatches *)

\* C26 as stated: Check never calls a decision operation of the backend with
\* cost <= 0: a cost of 0 is replaced by 1, a request with a negative cost is
\* answered with status 400 and not dispatched, and so no 429 response
\* carries retry_after_ms = 0 together with reset_at_ms = 0.
C26_CostDispatched ==
    http.phase = "done" =>
        /\ http.called => http.call.cost >= 1
        /\ (http.req.json /\ http.req.cost = 0 /\ http.called) => http.call.cost = 1
        /\ (http.req.json /\ http.req.cost < 0)
              => (~http.called /\ http.written[1].status = 400)
        /\ http.written[1].status = 429
              => ~(http.res.retryAfterMs = 0 /\ http.res.resetAtMs = 0)

-----------------------------------------------------------------------------
(* Isolation of (algorithm, logical key) pairs *)

\* The store keys of pair p alone that are live now.
CrossLive(p) == DOMAIN Purge(shadow.stores[p], clock)

\* C27 as stated: on either backend a decision for one (algorithm, logical
\* key) pair leaves unchanged, and is unaffected by, the state of a
\* different pair, keys that contain ':' or begin with a prefix included: no
\* two pairs touch a common store key or a common map entry, the shared
\* backend holds, entry by entry, what the backend of each pair alone holds,
\* and every Result is the one the pair gets on its own backend.
C27_CrossKeyIsolation ==
    load.alg = "pair"
    => /\ last.valid => last.res = shadow.res
       /\ backend = "redis"
          => /\ \A p, q \in load.pairs :
                   p # q => DOMAIN shadow.stores[p] \cap DOMAIN shadow.stores[q] = {}
             /\ DOMAIN store = UNION {CrossLive(p) : p \in load.pairs}
             /\ \A p \in load.pairs :
                   \A k \in CrossLive(p) : store[k] = shadow.stores[p][k]
       /\ backend = "memory"
          => \A f \in DOMAIN mem :
                /\ \A p, q \in load.pairs :
                      p # q => DOMAIN shadow.mems[p][f] \cap DOMAIN shadow.mems[q][f] = {}
                /\ DOMAIN mem[f] = UNION {DOMAIN shadow.mems[p][f] : p \in load.pairs}
                /\ \A p \in load.pairs :
                      \A k \in DOMAIN shadow.mems[p][f] : mem[f][k] = shadow.mems[p][f][k]

=============================================================================
